---- MODULE Spec2Model ----
(***************************************************************************)
(* State-machine model of src/spiral_particles.py: the SpiralSimulator     *)
(* session (construction, run loop, update = emit + integrate + filter,    *)
(* render, present, pacing sleep), the SIGINT handler and the process      *)
(* exit.                                                                   *)
(*                                                                         *)
(* Floats are modelled in fixed point: a float f is the integer            *)
(* f * SCALE (positions, velocities, angles in radians, random() draws).   *)
(* Products are rescaled with floor division.  Integers of the program     *)
(* (life, max_life, frame, width, height, center_x, center_y) are kept     *)
(* as integers.                                                            *)
(***************************************************************************)
EXTENDS Integers, Sequences, FiniteSets, TLC

VARIABLES
    pc,             \* position of the main thread in main() / run()
    width,          \* self.width
    height,         \* self.height
    center_x,       \* self.center_x
    center_y,       \* self.center_y
    particles,      \* self.particles (sequence of Particle records)
    frame,          \* self.frame
    running,        \* self.running
    handler,        \* TRUE once signal.signal(SIGINT, self._signal_handler) ran
    output,         \* the local `output` of run(): the last rendered frame
    printed,        \* what has been written to stdout so far (set of items)
    cursor,         \* terminal cursor: "visible" or "hidden"
    summary,        \* the summary printed by the finally block, or NoSummary
    exc,            \* exception propagating through run(): "none" or "SystemExit"
    exit_code,      \* "none" while running, else how the process ended
    interrupts,     \* number of SIGINTs delivered so far
    emitted,        \* LifeSpec only: the followed particle as it was emitted
    now,            \* TimeSpec only: what time.time() returns
    start_time,     \* TimeSpec only: the local `start_time` of run()
    elapsed,        \* TimeSpec only: the local `elapsed` of run()
    sleep_time,     \* TimeSpec only: the local `sleep_time` of run()
    work            \* TimeSpec only: time the calls of this iteration took

vars == <<pc, width, height, center_x, center_y, particles, frame, running,
          handler, output, printed, cursor, summary, exc, exit_code, interrupts,
          emitted, now, start_time, elapsed, sleep_time, work>>

\* the clock and the timing locals of run(), followed in TimeSpec only
clock_vars == <<now, start_time, elapsed, sleep_time, work>>

\* the variables of the session, which LifeSpec leaves alone
process_vars == <<center_x, center_y, frame, running, handler, output, printed,
                  cursor, summary, exc, exit_code, interrupts>>

----------------------------------------------------------------------------
(* Bounds of the model *)

\* fixed-point resolution: the integer v stands for the float v / SCALE
SCALE == 1000
\* the run loop is followed for at most MaxFrame ticks
MaxFrame == 2
\* at most MaxInterrupts SIGINTs are delivered to the process
MaxInterrupts == 2
\* number of random-draw profiles an emission can pick from
NumProfiles == 2
\* TimeSpec follows the clock of the run loop for at most MaxTicks iterations
MaxTicks == 3

----------------------------------------------------------------------------
(* Program constants *)

COLORS == <<"Red", "Green", "Yellow", "Blue", "Magenta", "Cyan", "White">>
spiral_chars == <<".", "*", "+", "o", "O">>
burst_chars == <<"*", "#", "@">>

spiral_num_particles == 12
burst_num_particles == 15
spiral_life_base == 60
spiral_life_spread == 30
burst_life_base == 35
burst_life_spread == 15
burst_max_life == 50
burst_dx == 8
burst_dy == 4
default_width == 80
default_height == 24
fps == 25

\* 0.25, 0.02, 0.015, 0.99, 0.04 ... as fixed-point values
Frac(num, den) == (num * SCALE) \div den

spiral_speed == Frac(25, 100)
gravity == Frac(15, 1000)
burst_probability == Frac(4, 100)

\* run line 187: frame_time = 1.0 / fps, in seconds
frame_time == Frac(1, fps)

----------------------------------------------------------------------------
(* Fixed-point arithmetic and math.sin / math.cos *)

Mul(a, b) == (a * b) \div SCALE

Pi == Frac(31416, 10000)
TwoPi == 2 * Pi
HalfPi == Pi \div 2

\* Taylor polynomial of sin on [0, pi/2]
SinTaylor(x) ==
    LET x2 == Mul(x, x)
        t3 == Mul(x, x2) \div 6
        t5 == Mul(t3, x2) \div 20
        t7 == Mul(t5, x2) \div 42
    IN  x - t3 + t5 - t7

\* sin on [0, pi]
SinHalf(a) == IF a > HalfPi THEN SinTaylor(Pi - a) ELSE SinTaylor(a)

Sin(a) ==
    LET r == a % TwoPi
    IN  IF r > Pi THEN 0 - SinHalf(r - Pi) ELSE SinHalf(r)

Cos(a) == Sin(a + HalfPi)

\* int(f): truncation toward zero
Trunc(v) == IF v >= 0 THEN v \div SCALE ELSE 0 - ((0 - v) \div SCALE)

----------------------------------------------------------------------------
(* The random module.  A call of an emitter picks one draw profile k; its  *)
(* n-th draw is then the ((k + n) mod 3)-th representative of the draw's   *)
(* range, so the draws of one call differ from particle to particle and    *)
(* every representative (both ends of every range included) is drawn.      *)

Profiles == 0 .. (NumProfiles - 1)

\* random.random(): a float in [0, 1)
RandomRep == <<0, SCALE \div 2, SCALE - 1>>
Random(k, n) == RandomRep[((k + n) % 3) + 1]

\* random.randint(lo, hi): an integer in lo .. hi, both ends included
RandInt(k, n, lo, hi) ==
    LET r == (k + n) % 3
    IN  IF r = 0 THEN lo ELSE IF r = 1 THEN (lo + hi) \div 2 ELSE hi

\* random.choice(seq)
Choice(k, n, seq) == seq[((k + n) % Len(seq)) + 1]

----------------------------------------------------------------------------
(* Particle and the two emitters *)

\* id is auxiliary: frame * 100 + index of the particle among those emitted
\* in that frame (spiral 0..11, burst 12..26); it names the particle in the
\* properties and is read by no operation.
Particle(id, x, y, vx, vy, life, max_life, color, char) ==
    [id |-> id, x |-> x, y |-> y, vx |-> vx, vy |-> vy,
     life |-> life, max_life |-> max_life, color |-> color, char |-> char]

\* the i-th particle of emit_spiral (i in 0..11) in frame f, given its draws:
\* u1, u2, u3 the three random() of lines 78, 83, 84 and r the randint(0, 30)
SpiralParticleOf(f, cx, cy, i, u1, u2, u3, r) ==
    LET angle  == f * spiral_speed + (i * TwoPi) \div spiral_num_particles
        radius == SCALE + Sin(f * Frac(2, 100)) \div 2
        emit_x == cx * SCALE + Mul(Cos(angle), radius) * 3
        emit_y == cy * SCALE + (Mul(Sin(angle), radius) * 15) \div 10
        speed  == Frac(6, 10) + (u1 * 4) \div 10
        vx     == Mul(Cos(angle), speed) + ((u2 - SCALE \div 2) * 2) \div 10
        vy     == Mul(Sin(angle), speed) \div 2 + (u3 - SCALE \div 2) \div 10
        color  == COLORS[(f % Len(COLORS)) + 1]
        char   == spiral_chars[(i % Len(spiral_chars)) + 1]
        life   == spiral_life_base + r
    IN  Particle(f * 100 + i, emit_x, emit_y, vx, vy, life, life, color, char)

\* the i-th particle of emit_spiral with draws 4i .. 4i+3 of profile k
SpiralParticle(f, cx, cy, k, i) ==
    SpiralParticleOf(f, cx, cy, i, Random(k, 4 * i), Random(k, 4 * i + 1),
                     Random(k, 4 * i + 2),
                     RandInt(k, 4 * i + 3, 0, spiral_life_spread))

\* mutant of EmitSpiral: the loop of line 69 stops one particle short
EmitSpiralShort(ps, f, cx, cy, k) ==
    ps \o [n \in 1 .. (spiral_num_particles - 1) |-> SpiralParticle(f, cx, cy, k, n - 1)]

\* emit_spiral: the particle list after the call
EmitSpiral(ps, f, cx, cy, k) ==
    ps \o [n \in 1 .. spiral_num_particles |-> SpiralParticle(f, cx, cy, k, n - 1)]

\* mutant of BurstParticleOf: max_life follows the sampled life (line 119)
BurstParticleOfCoupled(f, bx, by, i, u, color, char, r) ==
    LET angle == (i * TwoPi) \div burst_num_particles
        speed == Frac(5, 10) + (u * 6) \div 10
        vx    == Mul(Cos(angle), speed)
        vy    == Mul(Sin(angle), speed) \div 2
        life  == burst_life_base + r
    IN  Particle(f * 100 + spiral_num_particles + i, bx * SCALE, by * SCALE,
                 vx, vy, life, life, color, char)

\* the i-th particle of a burst (i in 0..14) at (bx, by) in frame f, given its
\* draws: u the random() of line 108, color and char the random.choice of
\* lines 113-114, r the randint(0, 15) of line 119
BurstParticleOf(f, bx, by, i, u, color, char, r) ==
    LET angle == (i * TwoPi) \div burst_num_particles
        speed == Frac(5, 10) + (u * 6) \div 10
        vx    == Mul(Cos(angle), speed)
        vy    == Mul(Sin(angle), speed) \div 2
        life  == burst_life_base + r
    IN  Particle(f * 100 + spiral_num_particles + i, bx * SCALE, by * SCALE,
                 vx, vy, life, burst_max_life, color, char)

\* the i-th particle of a burst with draws 3+4i .. 6+4i of profile k
BurstParticle(f, bx, by, k, i) ==
    BurstParticleOf(f, bx, by, i, Random(k, 3 + 4 * i),
                    Choice(k, 4 + 4 * i, COLORS), Choice(k, 5 + 4 * i, burst_chars),
                    RandInt(k, 6 + 4 * i, 0, burst_life_spread))

\* emit_burst: the particle list after the call; u is the random() draw of
\* line 101, k the profile of the draws that follow when the burst fires
EmitBurst(ps, f, cx, cy, u, k) ==
    IF u < burst_probability
    THEN LET burst_x == cx + RandInt(k, 1, 0 - burst_dx, burst_dx)
             burst_y == cy + RandInt(k, 2, 0 - burst_dy, burst_dy)
         IN  ps \o [n \in 1 .. burst_num_particles |->
                        BurstParticle(f, burst_x, burst_y, k, n - 1)]
    ELSE ps

----------------------------------------------------------------------------
(* update: integration of one particle, the loop, and the removal filter *)

\* line 147: life_ratio = p.life / p.max_life (undefined for max_life = 0)
LifeRatio(life, max_life) == (life * SCALE) \div max_life

\* mutant of Fade: the comparisons of lines 148-152 are <= instead of <
FadeInclusive(life, max_life, char) ==
    LET life_ratio == LifeRatio(life, max_life)
    IN  IF life_ratio <= Frac(25, 100) THEN "."
        ELSE IF life_ratio <= Frac(5, 10) THEN "+"
        ELSE IF life_ratio <= Frac(75, 100) THEN "o"
        ELSE char

\* lines 147-153: the glyph after the fade, from the decremented life
Fade(life, max_life, char) ==
    LET life_ratio == LifeRatio(life, max_life)
    IN  IF life_ratio < Frac(25, 100) THEN "."
        ELSE IF life_ratio < Frac(5, 10) THEN "+"
        ELSE IF life_ratio < Frac(75, 100) THEN "o"
        ELSE char

\* mutant of IntegrateParticle: line 144 is missing, life is not decreased
IntegrateParticleNoAging(p) ==
    [p EXCEPT !.x = p.x + p.vx,
              !.y = p.y + p.vy,
              !.vx = (p.vx * 99) \div 100,
              !.vy = ((p.vy + gravity) * 99) \div 100,
              !.char = Fade(p.life, p.max_life, p.char)]

\* mutant of IntegrateParticle: gravity and friction (lines 137-141) are
\* applied before the position update (lines 133-134)
IntegrateParticleVelocityFirst(p) ==
    [p EXCEPT !.x = p.x + (p.vx * 99) \div 100,
              !.y = p.y + ((p.vy + gravity) * 99) \div 100,
              !.vx = (p.vx * 99) \div 100,
              !.vy = ((p.vy + gravity) * 99) \div 100,
              !.life = p.life - 1,
              !.char = Fade(p.life - 1, p.max_life, p.char)]

\* lines 133-153 for one particle
IntegrateParticle(p) ==
    [p EXCEPT !.x = p.x + p.vx,
              !.y = p.y + p.vy,
              !.vx = (p.vx * 99) \div 100,
              !.vy = ((p.vy + gravity) * 99) \div 100,
              !.life = p.life - 1,
              !.char = Fade(p.life - 1, p.max_life, p.char)]

\* lines 132-153: the loop over self.particles
IntegrateAll(ps) == [n \in 1 .. Len(ps) |-> IntegrateParticle(ps[n])]

\* mutant of Keep: y is compared with the width (line 157)
KeepYAgainstWidth(p, w, h) ==
    /\ p.life > 0
    /\ 0 <= p.x /\ p.x < w * SCALE
    /\ 0 <= p.y /\ p.y < w * SCALE

\* mutant of Keep: a particle whose life reached 0 is kept (line 157)
KeepLifeZero(p, w, h) ==
    /\ p.life >= 0
    /\ 0 <= p.x /\ p.x < w * SCALE
    /\ 0 <= p.y /\ p.y < h * SCALE

\* the condition of the list comprehension of lines 156-157
KeepInsideOnly(p, w, h) ==
    /\ 0 <= p.x /\ p.x < w * SCALE
    /\ 0 <= p.y /\ p.y < h * SCALE

Keep(p, w, h) ==
    /\ p.life > 0
    /\ 0 <= p.x /\ p.x < w * SCALE
    /\ 0 <= p.y /\ p.y < h * SCALE

\* lines 156-157
RemoveDead(ps, w, h) == SelectSeq(ps, LAMBDA p : Keep(p, w, h))

----------------------------------------------------------------------------
(* render *)

\* a cell of the frame: grid[iy][ix] and color_grid[iy][ix]
EmptyCell == [char |-> " ", color |-> "None"]

\* lines 162-163: the fresh grids
BlankGrid(w, h) == [iy \in 0 .. (h - 1) |-> [ix \in 0 .. (w - 1) |-> EmptyCell]]

\* mutant of Place: a cell already written is not overwritten
PlaceFirstWins(grid, p, w, h) ==
    LET ix == Trunc(p.x)
        iy == Trunc(p.y)
    IN  IF 0 <= ix /\ ix < w /\ 0 <= iy /\ iy < h /\ grid[iy][ix] = EmptyCell
        THEN [grid EXCEPT ![iy][ix] = [char |-> p.char, color |-> p.color]]
        ELSE grid

\* lines 167-170: one particle written into the grids
Place(grid, p, w, h) ==
    LET ix == Trunc(p.x)
        iy == Trunc(p.y)
    IN  IF 0 <= ix /\ ix < w /\ 0 <= iy /\ iy < h
        THEN [grid EXCEPT ![iy][ix] = [char |-> p.char, color |-> p.color]]
        ELSE grid

\* lines 166-170: the loop over particles lo .. hi of self.particles, in
\* order.  The range is written as its first half followed by its second
\* half, which keeps the evaluation shallow; the test on the domain only
\* makes the first half be computed before the second starts.
RECURSIVE PlaceRange(_, _, _, _, _, _)
PlaceRange(grid, ps, lo, hi, w, h) ==
    IF lo > hi THEN grid
    ELSE IF lo = hi THEN Place(grid, ps[lo], w, h)
    ELSE LET mid  == (lo + hi) \div 2
             half == PlaceRange(grid, ps, lo, mid, w, h)
         IN  IF DOMAIN half = 0 .. (h - 1)
             THEN PlaceRange(half, ps, mid + 1, hi, w, h)
             ELSE half

\* render(): the frame as grid of (glyph, color tag) cells
Render(ps, w, h) == PlaceRange(BlankGrid(w, h), ps, 1, Len(ps), w, h)

----------------------------------------------------------------------------
(* The process: main(), SpiralSimulator(), run() and the SIGINT handler *)

NoOutput == <<>>
NoSummary == [frames |-> -1, particles |-> -1]

\* the terminal sizes shutil.get_terminal_size() reports
TermSizes == {<<80, 24>>, <<8, 13>>}

\* the random() draws of line 101: just below and at the threshold
FireDraws == {burst_probability - 1, burst_probability}

\* positions of the main thread inside the try block of run()
InTry == {"loop_test", "update_frame", "emit_spiral", "emit_burst", "integrate",
          "filter", "render", "present", "pace"}
\* positions inside the finally block
InFinally == {"fin_restore", "fin_summary"}

Init ==
    /\ pc = "main_banner"
    /\ width = 0 /\ height = 0 /\ center_x = 0 /\ center_y = 0
    /\ particles = <<>>
    /\ frame = 0
    /\ running = FALSE
    /\ handler = FALSE
    /\ output = NoOutput
    /\ printed = {}
    /\ cursor = "visible"
    /\ summary = NoSummary
    /\ exc = "none"
    /\ exit_code = "none"
    /\ interrupts = 0
    /\ emitted = <<>>
    /\ now = 0
    /\ start_time = 0
    /\ elapsed = 0
    /\ sleep_time = 0
    /\ work = 0

\* main, lines 222-223
MainBanner ==
    /\ pc = "main_banner"
    /\ pc' = "main_sleep"
    /\ printed' = printed \cup {"banner"}
    /\ UNCHANGED <<width, height, center_x, center_y, particles, frame, running,
                   handler, output, cursor, summary, exc, exit_code, interrupts,
                   emitted, clock_vars>>

\* main, line 224
MainSleep ==
    /\ pc = "main_sleep"
    /\ pc' = "init_fields"
    /\ UNCHANGED <<width, height, center_x, center_y, particles, frame, running,
                   handler, output, printed, cursor, summary, exc, exit_code,
                   interrupts,
                   emitted, clock_vars>>

\* __init__, lines 40-46, called with the defaults by main (line 226)
InitFields ==
    /\ pc = "init_fields"
    /\ width' = default_width
    /\ height' = default_height
    /\ particles' = <<>>
    /\ frame' = 0
    /\ running' = TRUE
    /\ center_x' = default_width \div 2
    /\ center_y' = default_height \div 2
    /\ pc' = "init_term"
    /\ UNCHANGED <<handler, output, printed, cursor, summary, exc, exit_code,
                   interrupts,
                   emitted, clock_vars>>

\* __init__, lines 49-55: the terminal size; center_y is computed from the
\* constructor argument height (line 53), not from self.height
InitTerm ==
    /\ pc = "init_term"
    /\ \E t \in TermSizes :
        /\ width' = t[1]
        /\ height' = t[2]
        /\ center_x' = t[1] \div 2
        /\ center_y' = default_height \div 2
    /\ pc' = "init_signal"
    /\ UNCHANGED <<particles, frame, running, handler, output, printed, cursor,
                   summary, exc, exit_code, interrupts,
                   emitted, clock_vars>>

\* __init__, line 57
InitSignal ==
    /\ pc = "init_signal"
    /\ handler' = TRUE
    /\ pc' = "run_clear"
    /\ UNCHANGED <<width, height, center_x, center_y, particles, frame, running,
                   output, printed, cursor, summary, exc, exit_code, interrupts,
                   emitted, clock_vars>>

\* run, lines 187-191
RunClear ==
    /\ pc = "run_clear"
    /\ printed' = printed \cup {"title"}
    /\ pc' = "run_splash"
    /\ UNCHANGED <<width, height, center_x, center_y, particles, frame, running,
                   handler, output, cursor, summary, exc, exit_code, interrupts,
                   emitted, clock_vars>>

\* run, line 192
RunSplash ==
    /\ pc = "run_splash"
    /\ pc' = "run_hide"
    /\ UNCHANGED <<width, height, center_x, center_y, particles, frame, running,
                   handler, output, printed, cursor, summary, exc, exit_code,
                   interrupts,
                   emitted, clock_vars>>

\* run, line 194: the cursor is hidden; the try statement of line 196 has
\* not been entered yet
RunHide ==
    /\ pc = "run_hide"
    /\ cursor' = "hidden"
    /\ pc' = "enter_try"
    /\ UNCHANGED <<width, height, center_x, center_y, particles, frame, running,
                   handler, output, printed, summary, exc, exit_code, interrupts,
                   emitted, clock_vars>>

\* run, line 196: the try block is entered
EnterTry ==
    /\ pc = "enter_try"
    /\ pc' = "loop_test"
    /\ UNCHANGED <<width, height, center_x, center_y, particles, frame, running,
                   handler, output, printed, cursor, summary, exc, exit_code,
                   interrupts,
                   emitted, clock_vars>>

\* run, line 197: while self.running (followed for MaxFrame ticks)
LoopTest ==
    /\ pc = "loop_test"
    /\ frame < MaxFrame
    /\ pc' = IF running THEN "update_frame" ELSE "fin_restore"
    /\ UNCHANGED <<width, height, center_x, center_y, particles, frame, running,
                   handler, output, printed, cursor, summary, exc, exit_code,
                   interrupts,
                   emitted, clock_vars>>

\* run line 198, update line 125
UpdateFrame ==
    /\ pc = "update_frame"
    /\ frame' = frame + 1
    /\ pc' = "emit_spiral"
    /\ UNCHANGED <<width, height, center_x, center_y, particles, running,
                   handler, output, printed, cursor, summary, exc, exit_code,
                   interrupts,
                   emitted, clock_vars>>

\* update line 128
EmitSpiralStep ==
    /\ pc = "emit_spiral"
    /\ \E k \in Profiles :
        particles' = EmitSpiral(particles, frame, center_x, center_y, k)
    /\ pc' = "emit_burst"
    /\ UNCHANGED <<width, height, center_x, center_y, frame, running,
                   handler, output, printed, cursor, summary, exc, exit_code,
                   interrupts,
                   emitted, clock_vars>>

\* update line 129
EmitBurstStep ==
    /\ pc = "emit_burst"
    /\ \E u \in FireDraws, k \in Profiles :
        particles' = EmitBurst(particles, frame, center_x, center_y, u, k)
    /\ pc' = "integrate"
    /\ UNCHANGED <<width, height, center_x, center_y, frame, running,
                   handler, output, printed, cursor, summary, exc, exit_code,
                   interrupts,
                   emitted, clock_vars>>

\* update lines 132-153
IntegrateStep ==
    /\ pc = "integrate"
    /\ particles' = IntegrateAll(particles)
    /\ pc' = "filter"
    /\ UNCHANGED <<width, height, center_x, center_y, frame, running,
                   handler, output, printed, cursor, summary, exc, exit_code,
                   interrupts,
                   emitted, clock_vars>>

\* update lines 156-157
FilterStep ==
    /\ pc = "filter"
    /\ particles' = RemoveDead(particles, width, height)
    /\ pc' = "render"
    /\ UNCHANGED <<width, height, center_x, center_y, frame, running,
                   handler, output, printed, cursor, summary, exc, exit_code,
                   interrupts,
                   emitted, clock_vars>>

\* run line 201
RenderStep ==
    /\ pc = "render"
    /\ output' = Render(particles, width, height)
    /\ pc' = "present"
    /\ UNCHANGED <<width, height, center_x, center_y, particles, frame, running,
                   handler, printed, cursor, summary, exc, exit_code, interrupts,
                   emitted, clock_vars>>

\* run line 204
Present ==
    /\ pc = "present"
    /\ printed' = printed \cup {"frame"}
    /\ pc' = "pace"
    /\ UNCHANGED <<width, height, center_x, center_y, particles, frame, running,
                   handler, output, cursor, summary, exc, exit_code, interrupts,
                   emitted, clock_vars>>

\* run lines 207-210, without the clock (TimeSpec follows the clock)
Pace ==
    /\ pc = "pace"
    /\ pc' = "loop_test"
    /\ UNCHANGED <<width, height, center_x, center_y, particles, frame, running,
                   handler, output, printed, cursor, summary, exc, exit_code,
                   interrupts,
                   emitted, clock_vars>>

\* run line 213, in the finally block
FinRestore ==
    /\ pc = "fin_restore"
    /\ cursor' = "visible"
    /\ printed' = printed \cup {"reset"}
    /\ pc' = "fin_summary"
    /\ UNCHANGED <<width, height, center_x, center_y, particles, frame, running,
                   handler, output, summary, exc, exit_code, interrupts,
                   emitted, clock_vars>>

\* run lines 214-217, then the pending exception leaves run() and main();
\* SystemExit(0) ends the process with status 0, and so does the return of main
FinSummary ==
    /\ pc = "fin_summary"
    /\ summary' = [frames |-> frame, particles |-> Len(particles)]
    /\ printed' = printed \cup {"summary"}
    /\ pc' = "exited"
    /\ exit_code' = "0"
    /\ UNCHANGED <<width, height, center_x, center_y, particles, frame, running,
                   handler, output, cursor, exc, interrupts,
                   emitted, clock_vars>>

\* SIGINT before line 57 ran: Python's default handler raises
\* KeyboardInterrupt in the main thread.  Outside the try of lines 49-55
\* nothing catches it and the process ends with a traceback.
InterruptDefault ==
    /\ pc \in {"main_banner", "main_sleep", "init_fields", "init_signal"}
    /\ interrupts < MaxInterrupts
    /\ interrupts' = interrupts + 1
    /\ pc' = "exited"
    /\ exit_code' = "KeyboardInterrupt"
    /\ UNCHANGED <<width, height, center_x, center_y, particles, frame, running,
                   handler, output, printed, cursor, summary, exc,
                   emitted, clock_vars>>

\* SIGINT inside the try of lines 49-55: the bare except of line 54 catches
\* the KeyboardInterrupt and the constructor goes on at line 57, with as much
\* of lines 51-53 done as had run (done = 0: nothing, 1: line 51, 2: line 52)
InterruptSwallowed ==
    /\ pc = "init_term"
    /\ interrupts < MaxInterrupts
    /\ interrupts' = interrupts + 1
    /\ \E t \in TermSizes, done \in 0 .. 2 :
        /\ width' = IF done >= 1 THEN t[1] ELSE width
        /\ height' = IF done >= 1 THEN t[2] ELSE height
        /\ center_x' = IF done >= 2 THEN t[1] \div 2 ELSE center_x
    /\ pc' = "init_signal"
    /\ UNCHANGED <<center_y, particles, frame, running, handler, output, printed,
                   cursor, summary, exc, exit_code,
                   emitted, clock_vars>>

\* SIGINT once the handler is registered: _signal_handler, lines 60-62.
\* sys.exit(0) raises SystemExit at the interrupted statement: inside the try
\* of run() the finally block runs next; before the try (lines 187-194, the
\* boundary between line 194 and line 196 included) and inside the finally
\* block itself nothing more of run() is executed.
SignalHandler ==
    /\ handler
    /\ pc # "exited"
    /\ interrupts < MaxInterrupts
    /\ interrupts' = interrupts + 1
    /\ running' = FALSE
    /\ printed' = printed \cup {"thanks"}
    /\ IF pc \in InTry
       THEN /\ pc' = "fin_restore"
            /\ exc' = "SystemExit"
            /\ exit_code' = exit_code
       ELSE /\ pc' = "exited"
            /\ exc' = "SystemExit"
            /\ exit_code' = "0"
    /\ UNCHANGED <<width, height, center_x, center_y, particles, frame, handler,
                   output, cursor, summary,
                   emitted, clock_vars>>

Next ==
    \/ MainBanner \/ MainSleep
    \/ InitFields \/ InitTerm \/ InitSignal
    \/ RunClear \/ RunSplash \/ RunHide \/ EnterTry
    \/ LoopTest \/ UpdateFrame \/ EmitSpiralStep \/ EmitBurstStep
    \/ IntegrateStep \/ FilterStep \/ RenderStep \/ Present \/ Pace
    \/ FinRestore \/ FinSummary
    \/ InterruptDefault \/ InterruptSwallowed \/ SignalHandler

Spec == Init /\ [][Next]_vars

----------------------------------------------------------------------------
(* LifeSpec: the course of one particle through update, tick after tick.   *)
(* Integration and removal treat every particle of the list on its own, so *)
(* the particle is followed alone, from the state in which an emitter      *)
(* appended it (any index, any life draw) to its removal, on a terminal    *)
(* tall enough for particles to reach the end of their life.               *)

LifeSizes == {<<80, 100>>}

\* the particles emit_spiral can append in frame f
SpiralEmissions(f, cx, cy) ==
    {SpiralParticleOf(f, cx, cy, i, Random(k, 4 * i), Random(k, 4 * i + 1),
                      Random(k, 4 * i + 2), r) :
        i \in 0 .. (spiral_num_particles - 1), k \in Profiles,
        r \in 0 .. spiral_life_spread}

\* the particles emit_burst can append in frame f
BurstEmissions(f, cx, cy) ==
    {BurstParticleOf(f, cx + RandInt(k, 1, 0 - burst_dx, burst_dx),
                     cy + RandInt(k, 2, 0 - burst_dy, burst_dy), i,
                     Random(k, 3 + 4 * i), Choice(k, 4 + 4 * i, COLORS),
                     Choice(k, 5 + 4 * i, burst_chars), r) :
        i \in 0 .. (burst_num_particles - 1), k \in Profiles,
        r \in 0 .. burst_life_spread}

LifeInit ==
    /\ pc = "life_integrate"
    /\ \E t \in LifeSizes :
        /\ width = t[1]
        /\ height = t[2]
        /\ center_x = t[1] \div 2
    /\ center_y = default_height \div 2
    /\ frame = 1
    /\ \E p \in SpiralEmissions(frame, center_x, center_y)
                  \cup BurstEmissions(frame, center_x, center_y) :
        /\ particles = <<p>>
        /\ emitted = p
    /\ running = TRUE
    /\ handler = TRUE
    /\ output = NoOutput
    /\ printed = {"banner", "title"}
    /\ cursor = "hidden"
    /\ summary = NoSummary
    /\ exc = "none"
    /\ exit_code = "none"
    /\ interrupts = 0
    /\ now = 0
    /\ start_time = 0
    /\ elapsed = 0
    /\ sleep_time = 0
    /\ work = 0

\* update lines 132-153, in the tick of the emission and in every later tick
LifeIntegrate ==
    /\ pc = "life_integrate"
    /\ particles # <<>>
    /\ particles' = IntegrateAll(particles)
    /\ pc' = "life_filter"
    /\ UNCHANGED <<width, height, process_vars, emitted, clock_vars>>

\* update lines 156-157
LifeFilter ==
    /\ pc = "life_filter"
    /\ particles' = RemoveDead(particles, width, height)
    /\ pc' = "life_frame"
    /\ UNCHANGED <<width, height, process_vars, emitted, clock_vars>>

\* update line 125, at the start of every later tick the particle sees
LifeUpdateFrame ==
    /\ pc = "life_frame"
    /\ particles # <<>>
    /\ frame' = frame + 1
    /\ pc' = "life_integrate"
    /\ UNCHANGED <<width, height, center_x, center_y, particles, running,
                   handler, output, printed, cursor, summary, exc, exit_code,
                   interrupts, emitted, clock_vars>>

LifeNext == LifeIntegrate \/ LifeFilter \/ LifeUpdateFrame

LifeSpec == LifeInit /\ [][LifeNext]_vars

----------------------------------------------------------------------------
(* TimeSpec: the clock of the scheduler loop of run(), lines 197-210.  The *)
(* loop reads time.time() twice per iteration and never reads the          *)
(* particles for its pacing, so the loop is followed with the time its     *)
(* calls take as the input and the particle collection left aside.  Times  *)
(* are seconds in fixed point, as read from one non-decreasing clock.      *)

\* the time one of update(), render(), print() may take: a quarter or a
\* half of a frame, so that an iteration's three calls take less than, as
\* much as, or more than frame_time
StepTimes == {frame_time \div 4, frame_time \div 2}

\* time.sleep(secs) suspends for at least secs: the extra time it may take
OverSleep == {0, frame_time \div 4}

SleepTimeFull(ft, el) == ft

\* run line 208: sleep_time = frame_time - elapsed
SleepTime(ft, el) == ft - el

\* the session constructed by main at default size, run() at the top of its
\* loop for the first time
TimeInit ==
    /\ pc = "t_loop_test"
    /\ width = default_width
    /\ height = default_height
    /\ center_x = default_width \div 2
    /\ center_y = default_height \div 2
    /\ particles = <<>>
    /\ frame = 0
    /\ running = TRUE
    /\ handler = TRUE
    /\ output = NoOutput
    /\ printed = {"banner", "title"}
    /\ cursor = "hidden"
    /\ summary = NoSummary
    /\ exc = "none"
    /\ exit_code = "none"
    /\ interrupts = 0
    /\ emitted = <<>>
    /\ now = 0
    /\ start_time = 0
    /\ elapsed = 0
    /\ sleep_time = 0
    /\ work = 0

\* run lines 197-198: while self.running: start_time = time.time()
\* (followed for MaxTicks iterations)
TimeLoopTest ==
    /\ pc = "t_loop_test"
    /\ frame < MaxTicks
    /\ running
    /\ start_time' = now
    /\ work' = 0
    /\ pc' = "t_update"
    /\ UNCHANGED <<width, height, process_vars, particles, emitted, now,
                   elapsed, sleep_time>>

\* run line 200: self.update(), which counts the frame (line 125); takes d
TimeUpdate ==
    /\ pc = "t_update"
    /\ frame' = frame + 1
    /\ \E d \in StepTimes :
        /\ now' = now + d
        /\ work' = work + d
    /\ pc' = "t_render"
    /\ UNCHANGED <<width, height, center_x, center_y, particles, running,
                   handler, output, printed, cursor, summary, exc, exit_code,
                   interrupts, emitted, start_time, elapsed, sleep_time>>

\* run line 201: output = self.render(); takes d
TimeRender ==
    /\ pc = "t_render"
    /\ \E d \in StepTimes :
        /\ now' = now + d
        /\ work' = work + d
    /\ pc' = "t_present"
    /\ UNCHANGED <<width, height, process_vars, particles, emitted,
                   start_time, elapsed, sleep_time>>

\* run line 204: print(output, ...); takes d
TimePresent ==
    /\ pc = "t_present"
    /\ printed' = printed \cup {"frame"}
    /\ \E d \in StepTimes :
        /\ now' = now + d
        /\ work' = work + d
    /\ pc' = "t_measure"
    /\ UNCHANGED <<width, height, center_x, center_y, particles, frame, running,
                   handler, output, cursor, summary, exc, exit_code,
                   interrupts, emitted, start_time, elapsed, sleep_time>>

\* run lines 207-209: elapsed, sleep_time and the test sleep_time > 0
TimeMeasure ==
    /\ pc = "t_measure"
    /\ elapsed' = now - start_time
    /\ sleep_time' = SleepTime(frame_time, elapsed')
    /\ pc' = IF sleep_time' > 0 THEN "t_sleep" ELSE "t_loop_test"
    /\ UNCHANGED <<width, height, process_vars, particles, emitted, now,
                   start_time, work>>

\* run line 210: time.sleep(sleep_time)
TimeSleep ==
    /\ pc = "t_sleep"
    /\ \E o \in OverSleep : now' = now + sleep_time + o
    /\ pc' = "t_loop_test"
    /\ UNCHANGED <<width, height, process_vars, particles, emitted,
                   start_time, elapsed, sleep_time, work>>

TimeNext ==
    \/ TimeLoopTest \/ TimeUpdate \/ TimeRender \/ TimePresent
    \/ TimeMeasure \/ TimeSleep

TimeSpec == TimeInit /\ [][TimeNext]_vars

----------------------------------------------------------------------------
(* Properties *)

\* index in ps of the particle with this id
IndexOf(ps, id) == CHOOSE n \in 1 .. Len(ps) : ps[n].id = id

C2_SummaryBeforeExit ==
    (pc = "exited" /\ "thanks" \in printed) =>
        /\ "summary" \in printed
        /\ summary # NoSummary
        /\ "reset" \in printed

\* C3 as stated: every call of emit_spiral appends exactly 12 particles, each
\* with life in [60, 90) and max_life equal to its life.
C3_SpiralLifeHalfOpen ==
    [][(pc = "emit_spiral" /\ pc' = "emit_burst") =>
            /\ Len(particles') = Len(particles) + 12
            /\ SubSeq(particles', 1, Len(particles)) = particles
            /\ \A n \in (Len(particles) + 1) .. Len(particles') :
                /\ 60 <= particles'[n].life /\ particles'[n].life < 90
                /\ particles'[n].max_life = particles'[n].life
      ]_vars

\* C3 amended: every call of emit_spiral appends exactly 12 particles to the
\* collection, leaving the others as they are, each with life in the closed
\* range [60, 90] and max_life equal to its life.
C3_SpiralEmission ==
    [][(pc = "emit_spiral" /\ pc' = "emit_burst") =>
            /\ Len(particles') = Len(particles) + 12
            /\ SubSeq(particles', 1, Len(particles)) = particles
            /\ \A n \in (Len(particles) + 1) .. Len(particles') :
                /\ 60 <= particles'[n].life /\ particles'[n].life <= 90
                /\ particles'[n].max_life = particles'[n].life
      ]_vars

\* C3 witness: the spiral of the second tick has been appended to a non-empty
\* collection, and one of its particles drew the life 90.
C3_Witness ==
    /\ pc = "emit_burst"
    /\ frame = 2
    /\ Len(particles) > 12
    /\ \E n \in 1 .. Len(particles) :
        particles[n].id >= 200 /\ particles[n].life = 90

\* C4: the integration of a tick lowers the life of every particle of the
\* collection (those emitted in this tick included) by exactly 1, and no
\* other step (emission, removal, render, present, sleep, interrupt) changes
\* the life of a particle that stays in the collection.
C4_LifeDecrement ==
    [][IF pc = "integrate" /\ pc' = "filter"
       THEN /\ Len(particles') = Len(particles)
            /\ \A n \in 1 .. Len(particles) :
                /\ particles'[n].id = particles[n].id
                /\ particles'[n].life = particles[n].life - 1
       ELSE IF pc = "filter" /\ pc' = "render"
       THEN \A m \in 1 .. Len(particles') :
                particles'[m].life
                    = particles[IndexOf(particles, particles'[m].id)].life
       ELSE /\ Len(particles') >= Len(particles)
            /\ \A n \in 1 .. Len(particles) :
                /\ particles'[n].id = particles[n].id
                /\ particles'[n].life = particles[n].life
      ]_vars

\* C4 witness: a spiral particle of the first tick during the second tick,
\* after its second integration: its life is two below its life at spawn.
C4_Witness ==
    /\ pc = "filter"
    /\ frame = 2
    /\ \E n \in 1 .. Len(particles) :
        /\ particles[n].id < 112
        /\ particles[n].life = particles[n].max_life - 2

\* the fade bucket of a life ratio: 0 for r < 0.25, 1 for 0.25 <= r < 0.5,
\* 2 for 0.5 <= r < 0.75, 3 for r >= 0.75
Bucket(p) ==
    IF 4 * p.life < p.max_life THEN 0
    ELSE IF 2 * p.life < p.max_life THEN 1
    ELSE IF 4 * p.life < 3 * p.max_life THEN 2
    ELSE 3

\* the glyph the four-bucket table gives a particle of this life, max_life
\* and previous glyph
TableGlyph(p, previous) ==
    IF Bucket(p) = 0 THEN "."
    ELSE IF Bucket(p) = 1 THEN "+"
    ELSE IF Bucket(p) = 2 THEN "o"
    ELSE previous

\* what the integration of one tick does to the glyph of the followed particle
C5_Table ==
    /\ (pc = "life_integrate" /\ pc' = "life_filter") =>
        LET p == particles[1]
            q == particles'[1]
        IN  /\ q.char = TableGlyph(q, p.char)
            /\ q.color = p.color
            /\ Bucket(q) <= Bucket(p)
            /\ (p.life = 1 /\ p.max_life = 60) => q.char = "."
    /\ (pc = "life_filter" /\ pc' = "life_frame" /\ particles[1].life <= 0)
            => particles' = <<>>

\* C5 as stated: the glyph after integration is given by the four-bucket
\* table from r = life/max_life and the previous glyph, whatever the color
\* tag; the bucket never moves back, and a glyph that has left the spawn
\* glyph never returns to it; a particle whose life reaches 0 is removed.
C5_NeverSpawnGlyphAgain ==
    [][/\ C5_Table
       /\ (pc = "life_integrate" /\ pc' = "life_filter") =>
            ~ (particles[1].char # emitted.char /\ particles'[1].char = emitted.char)
      ]_vars

\* C5 amended: the glyph after integration is given by the four-bucket table
\* from r = life/max_life and the previous glyph, whatever the color tag; the
\* bucket never moves back; a glyph that has left the spawn glyph returns to
\* it only when the spawn glyph is itself one of the fade glyphs '.' and '+'
\* (a spiral particle spawned as '+' shows 'o' and then '+' again); a
\* particle whose life reaches 0 is removed.
C5_FadeTable ==
    [][/\ C5_Table
       /\ (pc = "life_integrate" /\ pc' = "life_filter") =>
            ((particles[1].char # emitted.char /\ particles'[1].char = emitted.char)
                => emitted.char \in {".", "+"})
      ]_vars

\* C5 witness: the particle spawned with life 60 as 'O' has been integrated
\* down to life 0 and shows '.'; the removal is next.
C5_Witness ==
    /\ pc = "life_filter"
    /\ particles # <<>>
    /\ emitted.max_life = 60 /\ emitted.char = "O"
    /\ particles[1].life = 0 /\ particles[1].char = "."

\* C6: on an 80x24 canvas, in the first tick with no burst, the integration
\* moves each of the 12 spiral particles just emitted to spawn position +
\* spawn velocity (gravity and friction change the velocity only, after the
\* move), and the removal that follows keeps all 12 of them.
C6_FirstTick ==
    [][(frame = 1 /\ width = 80 /\ height = 24 /\ Len(particles) = 12) =>
        /\ (pc = "integrate" /\ pc' = "filter") =>
            /\ Len(particles') = 12
            /\ \A n \in 1 .. 12 :
                /\ particles[n].id = 100 + n - 1
                /\ particles'[n].id = particles[n].id
                /\ particles'[n].x = particles[n].x + particles[n].vx
                /\ particles'[n].y = particles[n].y + particles[n].vy
                /\ particles'[n].vx = (particles[n].vx * 99) \div 100
                /\ particles'[n].vy
                    = ((particles[n].vy + Frac(15, 1000)) * 99) \div 100
        /\ (pc = "filter" /\ pc' = "render") => particles' = particles
      ]_vars

\* C6 witness: the first tick on the 80x24 canvas is over, no burst fired,
\* and the collection holds the 12 spiral particles.
C6_Witness ==
    /\ pc = "render"
    /\ frame = 1
    /\ width = 80 /\ height = 24
    /\ Len(particles) = 12
    /\ \A n \in 1 .. 12 : particles[n].id = 100 + n - 1

\* the cell a particle is drawn in
CellOf(p) == <<Trunc(p.x), Trunc(p.y)>>

\* C7: render leaves the particles, their order and the frame counter as
\* they are, and the frame it returns holds in each cell the glyph and color
\* tag of the last particle of the collection whose truncated position is
\* that cell, and is empty in every other cell: the frame is a function of
\* the ordered collection.
C7_LastWriterWins ==
    [][(pc = "render" /\ pc' = "present") =>
        /\ particles' = particles
        /\ frame' = frame
        /\ DOMAIN output' = 0 .. (height - 1)
        /\ \A n \in 1 .. Len(particles) :
            LET c == CellOf(particles[n])
            IN  (\A m \in (n + 1) .. Len(particles) : CellOf(particles[m]) # c)
                    => output'[c[2]][c[1]]
                         = [char |-> particles[n].char, color |-> particles[n].color]
        /\ LET occupied == {CellOf(particles[n]) : n \in 1 .. Len(particles)}
           IN  \A iy \in 0 .. (height - 1) :
                /\ DOMAIN output'[iy] = 0 .. (width - 1)
                /\ \A ix \in 0 .. (width - 1) :
                    output'[iy][ix] # EmptyCell => <<ix, iy>> \in occupied
      ]_vars

\* C7 witness: a frame has been rendered from a collection in which two
\* particles of different glyph share a cell.
C7_Witness ==
    /\ pc = "present"
    /\ \E n, m \in 1 .. Len(particles) :
        /\ n < m
        /\ CellOf(particles[n]) = CellOf(particles[m])
        /\ particles[n].char # particles[m].char

\* what emit_burst does in one call, for spawn lives up to top
C8_Burst(top) ==
    (pc = "emit_burst" /\ pc' = "integrate") =>
        /\ Len(particles') \in {Len(particles), Len(particles) + 15}
        /\ SubSeq(particles', 1, Len(particles)) = particles
        /\ \A n \in (Len(particles) + 1) .. Len(particles') :
            LET q == particles'[n]
                o == particles'[Len(particles) + 1]
            IN  /\ q.x = o.x /\ q.y = o.y
                /\ q.x % SCALE = 0 /\ q.y % SCALE = 0
                /\ center_x - 8 <= q.x \div SCALE /\ q.x \div SCALE <= center_x + 8
                /\ center_y - 4 <= q.y \div SCALE /\ q.y \div SCALE <= center_y + 4
                /\ 35 <= q.life /\ q.life <= top
                /\ q.max_life = 50

\* C8 as stated: a call of emit_burst appends either nothing or exactly 15
\* particles, all at one origin within +-8 / +-4 of the emission center,
\* each with life in [35, 50) and max_life 50.
C8_BurstLifeHalfOpen == [][C8_Burst(49)]_vars

\* C8 amended: a call of emit_burst appends either nothing or exactly 15
\* particles, all at one origin within +-8 / +-4 of the emission center,
\* each with life in the closed range [35, 50] and max_life 50.
C8_BurstEmission == [][C8_Burst(50)]_vars

\* C8 witness: a burst fired in this tick, and one of its particles drew the
\* life 50 and another the life 35.
C8_Witness ==
    /\ pc = "integrate"
    /\ Len(particles) >= 27
    /\ \E n, m \in 1 .. Len(particles) :
        /\ particles[n].id = frame * 100 + 12 /\ particles[m].id > frame * 100 + 12
        /\ {particles[n].life, particles[m].life} = {35, 50}

\* C9: every particle of either emitter has max_life > 0 and 0 <= life <=
\* max_life, in particular when update has just evaluated life / max_life,
\* so that 0 <= r <= 1.
C9_RatioInRange ==
    \A n \in 1 .. Len(particles) :
        LET p == particles[n]
        IN  /\ p.max_life > 0
            /\ 0 <= p.life /\ p.life <= p.max_life
            /\ pc = "life_integrate" => p.life >= 1
            /\ 0 <= LifeRatio(p.life, p.max_life)
            /\ LifeRatio(p.life, p.max_life) <= SCALE

\* C9 witness: a burst particle spawned with life 50 = max_life has been
\* integrated down to life 0, where update evaluated r = 0.
C9_Witness ==
    /\ pc = "life_filter"
    /\ particles # <<>>
    /\ emitted.max_life = 50 /\ emitted.life = 50
    /\ particles[1].life = 0

\* C10: the loop is left only through an interrupt (running stays TRUE as
\* long as no interrupt was delivered), and whenever the process has ended,
\* it has ended with the exit status 0.
C10_ExitSuccess ==
    /\ (interrupts = 0 /\ pc \in InTry \cup InFinally) => running
    /\ interrupts = 0 => pc # "exited"
    /\ pc = "exited" => exit_code = "0"

\* C11: when the process has ended through the handler, the cursor is
\* visible again, wherever the interrupt arrived after the cursor was hidden
\* (the default attributes are restored by the handler's own print, line 61,
\* which starts with RESET).
C11_CursorRestored ==
    (pc = "exited" /\ "thanks" \in printed) => cursor = "visible"

\* C12: an interrupt that arrives inside a tick ends the tick (no step of
\* update, render or present runs once running is FALSE), and the summary
\* counts the surviving particles: "Final particles" is the size of the
\* collection, and every particle of it has life > 0 and lies on the canvas.
C12_SummaryCountsSurvivors ==
    /\ (handler /\ ~ running) => pc \in InFinally \cup {"exited"}
    /\ summary # NoSummary =>
        /\ summary.particles = Len(particles)
        /\ \A n \in 1 .. Len(particles) :
            /\ particles[n].life > 0
            /\ 0 <= particles[n].x /\ particles[n].x < width * SCALE
            /\ 0 <= particles[n].y /\ particles[n].y < height * SCALE

\* C14: once the session is constructed, the emission center is the center
\* of the canvas the filter and the rasterizer use: center_x = width // 2
\* and center_y = height // 2, for every terminal size.
C14_CenterOfCanvas ==
    handler =>
        /\ center_x = width \div 2
        /\ center_y = height \div 2

\* C15: a particle spawned in tick t with spawn life L, L at most 90, is in
\* the collection at no point later than tick t + L - 1 and is absent once
\* the filter of tick t + L - 1 has run; so at any point of a tick only
\* particles of the last 90 ticks are present, at most 27 per tick.
C15_RemovedWithinLife ==
    LET t == emitted.id \div 100
        L == emitted.life
    IN  /\ L <= spiral_life_base + spiral_life_spread
        /\ frame >= t
        /\ particles # <<>> => frame <= t + L - 1
        /\ (particles # <<>> /\ pc = "life_frame") => frame <= t + L - 2

\* a particle of spawn life 90 that is still on the canvas in the last tick
\* the bound allows, its life at 0, just before the filter removes it
C15_Witness ==
    /\ pc = "life_filter"
    /\ emitted.life = spiral_life_base + spiral_life_spread
    /\ frame = emitted.id \div 100 + emitted.life - 1
    /\ particles # <<>>
    /\ particles[1].life = 0
    /\ Keep(particles[1], width, height) = FALSE
    /\ KeepInsideOnly(particles[1], width, height)

\* C13: every iteration of the running loop does update, render and present
\* in this order, then asks for a sleep of exactly frame_time minus the time
\* its own calls took when that is positive, and for no sleep otherwise; the
\* sleep is never shortened by an earlier slow iteration, and two successive
\* iterations start at least frame_time apart.
C13_Pacing ==
    [][ /\ (pc = "t_loop_test") => (pc' = "t_update" /\ now' = now)
        /\ (pc = "t_update") => (pc' = "t_render" /\ frame' = frame + 1)
        /\ (pc = "t_render") => pc' = "t_present"
        /\ (pc = "t_present") => (pc' = "t_measure" /\ "frame" \in printed')
        /\ (pc = "t_measure") =>
            /\ elapsed' = work
            /\ sleep_time' = frame_time - work
            /\ now' = now
            /\ (work < frame_time) => pc' = "t_sleep"
            /\ (work >= frame_time) => pc' = "t_loop_test"
        /\ (pc = "t_sleep") =>
            /\ sleep_time = frame_time - work
            /\ sleep_time > 0
            /\ now' - now >= sleep_time
            /\ pc' = "t_loop_test"
        /\ (pc = "t_loop_test" /\ frame >= 1) =>
            start_time' - start_time >= frame_time
      ]_vars

\* an iteration that took less than frame_time, about to sleep its own
\* remainder, right after an iteration that overran frame_time
C13_Witness ==
    /\ pc = "t_sleep"
    /\ frame = 2
    /\ start_time > frame_time
    /\ work < frame_time
    /\ sleep_time = frame_time - work

====
